---- MODULE Spec2Model ----
(***************************************************************************)
(* Model of examples/aws_cli.py: the six command handlers of the demo AWS  *)
(* command line tool.  One process runs one handler on one argument        *)
(* namespace; a handler prints lines, calls the external library and       *)
(* either returns or lets an exception propagate.                          *)
(*                                                                         *)
(* Text is a sequence of one-character strings.  A Python value that may   *)
(* be None is a tagged record: None or Str(text).                          *)
(***************************************************************************)
EXTENDS Integers, Sequences, FiniteSets, TLC

VARIABLES pc, cmd, args, env, out, calls, exc

vars == <<pc, cmd, args, env, out, calls, exc>>

(* ------------------------------ bounds --------------------------------- *)

\* longest --attach_volumes text enumerated character by character
MaxLen == 12
\* most entries of the regular inputs "v,v,...", "vv,vv,..."
MaxEntries == 13
\* longest entry of the regular inputs
MaxEntryLen == 2
\* most records an external listing or lookup returns
MaxRecords == 3

(* --------------------------- Python values ----------------------------- *)

None == [t |-> "None"]

Str(s) == [t |-> "str", v |-> s]

\* bool(x) of an argument that is None or a string
Truthy(x) == x.t = "str" /\ x.v # <<>>

\* one printed line: the format string and the values formatted into it
Line(fmt, vals) == [fmt |-> fmt, vals |-> vals]

\* one call into the external library
Call(fn, params) == [fn |-> fn, params |-> params]

(* ------------------------------ str.split ------------------------------ *)

RECURSIVE SplitFrom(_, _, _)
\* the entries of text from position i on, cur being the entry in progress
SplitFrom(text, i, cur) ==
  IF i > Len(text) THEN <<cur>>
  ELSE IF text[i] = "," THEN <<cur>> \o SplitFrom(text, i + 1, <<>>)
  ELSE SplitFrom(text, i + 1, Append(cur, text[i]))

\* text.split(',')
Split(text) == SplitFrom(text, 1, <<>>)

\* all(elements for elements in volumes)
AllNonEmpty(volumes) == \A i \in 1..Len(volumes) : volumes[i] # <<>>

(* -------------------------------- chr ---------------------------------- *)

OrdF == 102

AsciiFrom97 == <<"a","b","c","d","e","f","g","h","i","j","k","l","m","n","o",
                 "p","q","r","s","t","u","v","w","x","y","z","{","|","}","~">>

\* chr(code) for the codes the device letter can take
Chr(code) == AsciiFrom97[code - 96]

\* '/dev/sd' + chr(device_letter)
DeviceName(device_letter) == <<"/dev/sd", Chr(device_letter)>>

\* AttachPairs without the increment of line 136
AttachPairsSameLetter(volumes) ==
  [i \in 1..Len(volumes) |-> <<volumes[i], DeviceName(OrdF)>>]

\* the loop of lines 132-136: the i-th volume gets letter ord('f') + i - 1
AttachPairs(volumes) ==
  [i \in 1..Len(volumes) |-> <<volumes[i], DeviceName(OrdF + i - 1)>>]

(* -------------------------------- int ---------------------------------- *)

Digits == <<"0","1","2","3","4","5","6","7","8","9">>

IsDigit(c) == \E d \in 1..10 : Digits[d] = c

DigitVal(c) == (CHOOSE d \in 1..10 : Digits[d] = c) - 1

RECURSIVE DecimalValue(_, _)
\* the number the first n characters of a digit text denote
DecimalValue(text, n) ==
  IF n = 0 THEN 0 ELSE 10 * DecimalValue(text, n - 1) + DigitVal(text[n])

\* int(text) of a text without blanks, sign or underscores:
\* the value, or ValueError for the empty text and for any non-digit
IntOf(text) ==
  IF text # <<>> /\ \A i \in 1..Len(text) : IsDigit(text[i])
  THEN [ok |-> TRUE, val |-> DecimalValue(text, Len(text))]
  ELSE [ok |-> FALSE]

(* ------------------------- handler outcomes ---------------------------- *)

\* the handler ran to its end or to a return statement
Returned(o, c) == [pc |-> "returned", exc |-> "none", out |-> o, calls |-> c]

\* an exception left the handler
Raised(e, o, c) == [pc |-> "raised", exc |-> e, out |-> o, calls |-> c]

(* --------------------------- StartAnalysisVm --------------------------- *)

\* the limit of line 118
AttachLimit == 11

\* TooLong without the size check
TooLongDropped(a) == FALSE

\* TooLong counting the entries instead of the characters
TooLongByEntries(a) ==
  Truthy(a.attach_volumes) /\ Len(Split(a.attach_volumes.v)) > AttachLimit

\* line 118: args.attach_volumes and len(args.attach_volumes) > 11
TooLong(a) ==
  Truthy(a.attach_volumes) /\ Len(a.attach_volumes.v) > AttachLimit

\* BadEntries without the test of the entries
BadEntriesOnlyList(volumes) == ~(volumes # <<>>)

\* line 127: not (volumes and all(elements for elements in volumes))
BadEntries(volumes) == ~(volumes # <<>> /\ AllNonEmpty(volumes))

\* lines 122-136 on the path that gets past the check of line 127
AttachVolumes(a) ==
  IF Truthy(a.attach_volumes)
  THEN AttachPairs(Split(a.attach_volumes.v))
  ELSE <<>>

\* the keyword arguments of lines 139-145
VmParams(a) ==
  [vm_name |-> a.instance_name,
   default_availability_zone |-> a.zone,
   boot_volume_size |-> IntOf(a.disk_size).val,
   cpu_cores |-> IntOf(a.cpu_cores).val,
   ami |-> a.ami,
   ssh_key_name |-> a.ssh_key_name,
   attach_volumes |-> AttachVolumes(a)]

\* lines 138-150: the prints around the external call, ext being what the
\* library does with the call: raise, or return (instance, started)
StartVm(a, ext) ==
  LET started == <<Line("Starting analysis VM...", <<>>)>>
      call == <<Call("forensics.StartAnalysisVm", VmParams(a))>>
  IN IF ~IntOf(a.disk_size).ok \/ ~IntOf(a.cpu_cores).ok
     THEN Raised("ValueError", started, <<>>)
     ELSE IF ext.raises THEN Raised("LibraryError", started, call)
     ELSE Returned(started \o
                   <<Line("Analysis VM started.", <<>>),
                     Line("Name: {0:s}, Started: {1:s}, Region: {2:s}",
                          <<ext.vm.name, ext.started, ext.vm.region>>)>>,
                   call)

\* the whole handler, lines 118-150
RunStartAnalysisVm(a, ext) ==
  IF TooLong(a)
  THEN Returned(<<Line("error: --attach_volumes must be < 11", <<>>)>>, <<>>)
  ELSE IF Truthy(a.attach_volumes) /\ BadEntries(Split(a.attach_volumes.v))
  THEN Returned(<<Line("error: parameter --attach_volumes: {0:s}",
                       <<a.attach_volumes.v>>)>>, <<>>)
  ELSE StartVm(a, ext)

(* --------------------------- datetime.strptime ------------------------- *)

\* '%Y-%m-%d %H:%M:%S' of lines 100 and 102, directive by directive
Format == <<"%Y", "-", "%m", "-", "%d", " ", "%H", ":", "%M", ":", "%S">>

IsSpace(c) == c \in {" ", "\t"}

\* text[i..i+n-1] lies in the text and is all digits
DigitsAt(text, i, n) ==
  i + n - 1 <= Len(text) /\ \A j \in i..(i + n - 1) : IsDigit(text[j])

\* the number text[i..i+n-1] denotes
NumberAt(text, i, n) == DecimalValue(SubSeq(text, i, i + n - 1), n)

\* the <<length, value>> pairs directive d can match at position i: the
\* alternatives of the regular expression strptime compiles for d
FieldMatches(d, text, i) ==
  LET one == IF DigitsAt(text, i, 1) THEN {<<1, NumberAt(text, i, 1)>>} ELSE {}
      two == IF DigitsAt(text, i, 2) THEN {<<2, NumberAt(text, i, 2)>>} ELSE {}
      padded == IF i + 1 <= Len(text) /\ text[i] = " " /\ DigitsAt(text, i + 1, 1)
                THEN {<<2, NumberAt(text, i + 1, 1)>>} ELSE {}
  IN CASE d = "%Y" -> IF DigitsAt(text, i, 4)
                      THEN {<<4, NumberAt(text, i, 4)>>} ELSE {}
       [] d = "%m" -> {f \in two : f[2] \in 1..12} \cup {f \in one : f[2] \in 1..9}
       [] d = "%d" -> {f \in two : f[2] \in 1..31} \cup {f \in one : f[2] \in 1..9}
                      \cup {f \in padded : f[2] \in 1..9}
       [] d = "%H" -> {f \in two : f[2] \in 0..23} \cup one
       [] d = "%M" -> {f \in two : f[2] \in 0..59} \cup one
       [] d = "%S" -> {f \in two : f[2] \in 0..61} \cup one

RECURSIVE MatchFormat(_, _, _, _)
\* every way directives k.. of the format match the text from position i:
\* the position after the match and the field values, vals being those
\* matched so far
MatchFormat(text, k, i, vals) ==
  IF k > Len(Format) THEN {[end |-> i, vals |-> vals]}
  ELSE IF Format[k] = " "
  THEN UNION {MatchFormat(text, k + 1, i + n, vals) :
                n \in {m \in 1..(Len(text) - i + 1) :
                         \A j \in i..(i + m - 1) : IsSpace(text[j])}}
  ELSE IF Format[k] \in {"-", ":"}
  THEN IF i <= Len(text) /\ text[i] = Format[k]
       THEN MatchFormat(text, k + 1, i + 1, vals) ELSE {}
  ELSE UNION {MatchFormat(text, k + 1, i + f[1], Append(vals, f[2])) :
                f \in FieldMatches(Format[k], text, i)}

IsLeap(y) == y % 4 = 0 /\ (y % 100 # 0 \/ y % 400 = 0)

DaysInMonth(y, m) ==
  IF m = 2 THEN (IF IsLeap(y) THEN 29 ELSE 28)
  ELSE IF m \in {4, 6, 9, 11} THEN 30 ELSE 31

\* datetime.strptime(text, '%Y-%m-%d %H:%M:%S'): the datetime, or ValueError
\* when the text does not match, when data remains after the match, or
\* when the fields are no date and time
Strptime(text) ==
  LET ms == MatchFormat(text, 1, 1, <<>>)
      \* a two-digit alternative comes before the one-digit one
      m == CHOOSE x \in ms : \A y \in ms : y.end <= x.end
  IN IF ms = {} THEN [ok |-> FALSE]
     ELSE IF m.end # Len(text) + 1 THEN [ok |-> FALSE]
     ELSE IF m.vals[1] < 1 \/ m.vals[3] > DaysInMonth(m.vals[1], m.vals[2])
             \/ m.vals[6] > 59
     THEN [ok |-> FALSE]
     ELSE [ok |-> TRUE,
           val |-> [year |-> m.vals[1], month |-> m.vals[2], day |-> m.vals[3],
                    hour |-> m.vals[4], minute |-> m.vals[5],
                    second |-> m.vals[6]]]

(* ------------------------------ QueryLogs ------------------------------ *)

\* ParamKeys without line 98
ParamKeysNoFilter(a) ==
  {k \in {"starttime", "endtime"} :
     \/ k = "starttime" /\ Truthy(a.start)
     \/ k = "endtime" /\ Truthy(a.end)}

\* lines 97, 99, 101: the keys whose argument is truthy
ParamKeys(a) ==
  {k \in {"qfilter", "starttime", "endtime"} :
     \/ k = "qfilter" /\ Truthy(a.filter)
     \/ k = "starttime" /\ Truthy(a.start)
     \/ k = "endtime" /\ Truthy(a.end)}

\* lines 96-102 when both conversions succeed
Params(a) ==
  [k \in ParamKeys(a) |->
     IF k = "qfilter" THEN a.filter.v
     ELSE IF k = "starttime" THEN Strptime(a.start.v).val
     ELSE Strptime(a.end.v).val]

\* lines 99-102: a conversion that is made raises
ParamsRaise(a) ==
  \/ Truthy(a.start) /\ ~Strptime(a.start.v).ok
  \/ Truthy(a.end) /\ ~Strptime(a.end.v).ok

\* ResultTruthy as 'result is not None'
ResultNotNone(result) == result.t = "list"

\* bool(result) of line 106
ResultTruthy(result) == result.t = "list" /\ result.v # <<>>

\* lines 106-109
PrintEvents(result) ==
  IF ResultTruthy(result)
  THEN <<Line("Log events found: {0:d}", <<Len(result.v)>>)>> \o
       [i \in 1..Len(result.v) |-> Line("{}", <<result.v[i]>>)]
  ELSE <<>>

\* RunQueryLogs with the conversions inside try/except ValueError: the
\* handler reports the timestamp and returns
RunQueryLogsCatching(a, ext) ==
  LET ctor == <<Call("account.AWSAccount", <<a.zone>>),
                Call("aws_log.AWSCloudTrail", <<>>)>>
      lookup == <<Call("LookupEvents", Params(a))>>
  IN IF ext.raises = "AWSAccount"
     THEN Raised("LibraryError", <<>>, <<ctor[1]>>)
     ELSE IF ParamsRaise(a)
     THEN Returned(<<Line("error: bad timestamp", <<>>)>>, ctor)
     ELSE IF ext.raises = "LookupEvents"
     THEN Raised("LibraryError", <<>>, ctor \o lookup)
     ELSE Returned(PrintEvents(ext.result), ctor \o lookup)

\* the whole handler, lines 94-109; ext tells which library call raises,
\* if any, and what LookupEvents returns
RunQueryLogs(a, ext) ==
  LET ctor == <<Call("account.AWSAccount", <<a.zone>>),
                Call("aws_log.AWSCloudTrail", <<>>)>>
      lookup == <<Call("LookupEvents", Params(a))>>
  IN IF ext.raises = "AWSAccount"
     THEN Raised("LibraryError", <<>>, <<ctor[1]>>)
     ELSE IF ParamsRaise(a) THEN Raised("ValueError", <<>>, ctor)
     ELSE IF ext.raises = "LookupEvents"
     THEN Raised("LibraryError", <<>>, ctor \o lookup)
     ELSE Returned(PrintEvents(ext.result), ctor \o lookup)

(* ------------------------------ json.loads ----------------------------- *)

Quote == "\""

RECURSIVE SkipBlanks(_, _)
\* the first position from i on that holds no blank
SkipBlanks(text, i) ==
  IF i <= Len(text) /\ IsSpace(text[i]) THEN SkipBlanks(text, i + 1) ELSE i

RECURSIVE StringEnd(_, _)
\* the position of the first quote from i on, 0 if there is none
StringEnd(text, i) ==
  IF i > Len(text) THEN 0
  ELSE IF text[i] = Quote THEN i
  ELSE StringEnd(text, i + 1)

\* a JSON string without escapes at position i: its characters and the
\* position after its closing quote
ParseString(text, i) ==
  IF i <= Len(text) /\ text[i] = Quote /\ StringEnd(text, i + 1) # 0
  THEN [ok |-> TRUE, val |-> SubSeq(text, i + 1, StringEnd(text, i + 1) - 1),
        next |-> StringEnd(text, i + 1) + 1]
  ELSE [ok |-> FALSE]

RECURSIVE ParseMembers(_, _, _)
\* the members of an object from position i (a key is due there) up to and
\* including the closing brace; acc holds the members read so far, and a
\* key that comes again takes the later value
ParseMembers(text, i, acc) ==
  LET key == ParseString(text, i)
      colon == SkipBlanks(text, key.next)
      val == ParseString(text, SkipBlanks(text, colon + 1))
      after == SkipBlanks(text, val.next)
      members == (key.val :> val.val) @@ acc
  IN IF ~key.ok THEN [ok |-> FALSE]
     ELSE IF colon > Len(text) \/ text[colon] # ":" THEN [ok |-> FALSE]
     ELSE IF ~val.ok THEN [ok |-> FALSE]
     ELSE IF after > Len(text) THEN [ok |-> FALSE]
     ELSE IF text[after] = "}"
     THEN [ok |-> TRUE, val |-> members, next |-> after + 1]
     ELSE IF text[after] = ","
     THEN ParseMembers(text, SkipBlanks(text, after + 1), members)
     ELSE [ok |-> FALSE]

\* the empty mapping
EmptyDict == [k \in {} |-> <<>>]

\* json.loads(text) for a text that is an object of strings or no JSON at
\* all: the mapping, or JSONDecodeError
JsonLoads(text) ==
  LET open == SkipBlanks(text, 1)
      first == SkipBlanks(text, open + 1)
      obj == IF first <= Len(text) /\ text[first] = "}"
             THEN [ok |-> TRUE, val |-> EmptyDict, next |-> first + 1]
             ELSE ParseMembers(text, first, EmptyDict)
  IN IF open > Len(text) \/ text[open] # "{" THEN [ok |-> FALSE]
     ELSE IF ~obj.ok THEN [ok |-> FALSE]
     ELSE IF SkipBlanks(text, obj.next) # Len(text) + 1 THEN [ok |-> FALSE]
     ELSE [ok |-> TRUE, val |-> obj.val]

(* --------------------------- CreateVolumeCopy -------------------------- *)

\* TagsOf without the json.loads of line 74
TagsOfRawText(a) == IF Truthy(a.tags) THEN a.tags ELSE None

\* lines 72-74: tags is None unless args.tags is truthy
TagsOf(a) ==
  IF Truthy(a.tags) THEN [t |-> "dict", v |-> JsonLoads(a.tags.v).val] ELSE None

\* the arguments of lines 75-81
CopyParams(a) ==
  [zone |-> a.zone, dst_zone |-> a.dst_zone, instance_id |-> a.instance_id,
   volume_id |-> a.volume_id, src_profile |-> a.src_profile,
   dst_profile |-> a.dst_profile, tags |-> TagsOf(a)]

\* the whole handler, lines 71-85; ext is what forensics.CreateVolumeCopy
\* does: raise, or return the new volume
RunCreateVolumeCopy(a, ext) ==
  LET started == <<Line("Starting volume copy...", <<>>)>>
      call == <<Call("forensics.CreateVolumeCopy", CopyParams(a))>>
  IN IF Truthy(a.tags) /\ ~JsonLoads(a.tags.v).ok
     THEN Raised("JSONDecodeError", started, <<>>)
     ELSE IF ext.raises THEN Raised("LibraryError", started, call)
     ELSE Returned(started \o
                   <<Line("Done! Volume {0:s} successfully created. You will find it in your AWS account under the name {1:s}.",
                          <<ext.volume.volume_id, ext.volume.name>>)>>,
                   call)

(* --------------------------- listing commands -------------------------- *)

\* lines 43-46: the header, then a line per instance until a GetBootVolume
\* call raises; raiseAt is the index of the instance whose call raises, 0
\* if none does
InstanceLines(instances, raiseAt) ==
  LET n == IF raiseAt \in 1..Len(instances) THEN raiseAt - 1 ELSE Len(instances)
  IN <<Line("Instances found:", <<>>)>> \o
     [i \in 1..n |-> Line("Name: {0:s}, Boot volume: {1:s}",
                          <<instances[i].name, instances[i].boot_volume>>)]

\* the GetBootVolume calls of line 45
BootVolumeCalls(instances, raiseAt) ==
  LET n == IF raiseAt \in 1..Len(instances) THEN raiseAt ELSE Len(instances)
  IN [i \in 1..n |-> Call("GetBootVolume", <<instances[i].name>>)]

\* the whole handler, lines 40-46
RunListInstances(a, ext) ==
  LET ctor == <<Call("account.AWSAccount", <<a.zone>>)>>
      list == <<Call("ListInstances", <<>>)>>
  IN IF ext.raises = "AWSAccount" THEN Raised("LibraryError", <<>>, ctor)
     ELSE IF ext.raises = "List"
     THEN Raised("LibraryError", <<>>, ctor \o list)
     ELSE IF ext.raiseAt \in 1..Len(ext.result)
     THEN Raised("LibraryError", InstanceLines(ext.result, ext.raiseAt),
                 ctor \o list \o BootVolumeCalls(ext.result, ext.raiseAt))
     ELSE Returned(InstanceLines(ext.result, 0),
                   ctor \o list \o BootVolumeCalls(ext.result, 0))

\* VolumeLines without the print of line 59
VolumeLinesNoHeader(volumes) ==
  [i \in 1..Len(volumes) |-> Line("Name: {0:s}, Zone: {1:s}",
                                  <<volumes[i].name, volumes[i].availability_zone>>)]

\* lines 59-62
VolumeLines(volumes) ==
  <<Line("Volumes found:", <<>>)>> \o
  [i \in 1..Len(volumes) |-> Line("Name: {0:s}, Zone: {1:s}",
                                  <<volumes[i].name, volumes[i].availability_zone>>)]

\* the whole handler, lines 56-62
RunListVolumes(a, ext) ==
  LET ctor == <<Call("account.AWSAccount", <<a.zone>>)>>
      list == <<Call("ListVolumes", <<>>)>>
  IN IF ext.raises = "AWSAccount" THEN Raised("LibraryError", <<>>, ctor)
     ELSE IF ext.raises = "List"
     THEN Raised("LibraryError", <<>>, ctor \o list)
     ELSE Returned(VolumeLines(ext.result), ctor \o list)

\* lines 165-167: no header is printed
ImageLines(images) ==
  [i \in 1..Len(images) |-> Line("Name: {0:s}, ImageId: {1:s}, Location: {2:s}",
                                 <<images[i].Name, images[i].ImageId,
                                   images[i].ImageLocation>>)]

\* line 161
ImageFilter(a) == <<[Name |-> "name", Values |-> <<a.filter>>]>>

\* the whole handler, lines 159-167
RunListImages(a, ext) ==
  LET ctor == <<Call("account.AWSAccount", <<a.zone>>)>>
      list == <<Call("ListImages", <<ImageFilter(a)>>)>>
  IN IF ext.raises = "AWSAccount" THEN Raised("LibraryError", <<>>, ctor)
     ELSE IF ext.raises = "List"
     THEN Raised("LibraryError", <<>>, ctor \o list)
     ELSE Returned(ImageLines(ext.result), ctor \o list)

(* ------------------------------ inputs --------------------------------- *)

Alphabet == {"v", ","}

\* every text over the alphabet of at most n characters
TextsUpTo(n) == UNION {[1..k -> Alphabet] : k \in 0..n}

\* n entries of k characters each, joined by commas
RegularText(n, k) ==
  [i \in 1..(n * (k + 1) - 1) |-> IF i % (k + 1) = 0 THEN "," ELSE "v"]

RegularTexts == {RegularText(n, k) : n \in 1..MaxEntries, k \in 1..MaxEntryLen}

AttachInputs == {None} \cup {Str(t) : t \in TextsUpTo(MaxLen) \cup RegularTexts}

VmArgs ==
  [attach_volumes : AttachInputs, disk_size : {<<"5", "0">>, <<"x">>},
   cpu_cores : {<<"4">>, <<>>}, instance_name : {"analysis-vm"},
   zone : {"us-east-1"}, ami : {"ami-1"}, ssh_key_name : {"key-1"}]

\* what forensics.StartAnalysisVm may do: raise, or return (instance, created)
VmOutcomes ==
  {[raises |-> TRUE]} \cup
  {[raises |-> FALSE, vm |-> [name |-> "analysis-vm", region |-> "us-east-1"],
    started |-> s] : s \in {"True", "False"}}

(* timestamps given as --start and --end *)

\* "2020-01-01 00:00:00"
TsNewYear ==
  <<"2", "0", "2", "0", "-", "0", "1", "-", "0", "1", " ", "0", "0", ":", "0", "0", ":", "0", "0">>

\* "2020-12-31 23:59:59"
TsYearEnd ==
  <<"2", "0", "2", "0", "-", "1", "2", "-", "3", "1", " ", "2", "3", ":", "5", "9", ":", "5", "9">>

\* "2020-02-29 12:30:00"
TsLeapDay ==
  <<"2", "0", "2", "0", "-", "0", "2", "-", "2", "9", " ", "1", "2", ":", "3", "0", ":", "0", "0">>

\* "2020-1-1 0:0:0"
TsShort ==
  <<"2", "0", "2", "0", "-", "1", "-", "1", " ", "0", ":", "0", ":", "0">>

\* "2020-01-01"
TsDateOnly ==
  <<"2", "0", "2", "0", "-", "0", "1", "-", "0", "1">>

\* "2020-13-01 00:00:00"
TsMonth13 ==
  <<"2", "0", "2", "0", "-", "1", "3", "-", "0", "1", " ", "0", "0", ":", "0", "0", ":", "0", "0">>

\* "2021-02-29 00:00:00"
TsFeb29 ==
  <<"2", "0", "2", "1", "-", "0", "2", "-", "2", "9", " ", "0", "0", ":", "0", "0", ":", "0", "0">>

\* "01/01/2020 00:00:00"
TsSlashes ==
  <<"0", "1", "/", "0", "1", "/", "2", "0", "2", "0", " ", "0", "0", ":", "0", "0", ":", "0", "0">>

\* "2020-01-01 00:00:00Z"
TsTrailing ==
  <<"2", "0", "2", "0", "-", "0", "1", "-", "0", "1", " ", "0", "0", ":", "0", "0", ":", "0", "0", "Z">>

\* "2020-01-01T00:00:00"
TsIso ==
  <<"2", "0", "2", "0", "-", "0", "1", "-", "0", "1", "T", "0", "0", ":", "0", "0", ":", "0", "0">>

\* "2020-01-01 24:00:00"
TsHour24 ==
  <<"2", "0", "2", "0", "-", "0", "1", "-", "0", "1", " ", "2", "4", ":", "0", "0", ":", "0", "0">>

\* "2020-01-01 00:00:60"
TsSecond60 ==
  <<"2", "0", "2", "0", "-", "0", "1", "-", "0", "1", " ", "0", "0", ":", "0", "0", ":", "6", "0">>

Timestamps ==
  {TsNewYear,
   TsYearEnd,
   TsLeapDay,
   TsShort,
   TsDateOnly,
   TsMonth13,
   TsFeb29,
   TsSlashes,
   TsTrailing,
   TsIso,
   TsHour24,
   TsSecond60}

TimeInputs == {None, Str(<<>>)} \cup {Str(t) : t \in Timestamps}

FilterInputs == {None, Str(<<>>), Str(<<"e", "c", "2">>)}

QueryArgs ==
  [zone : {"us-east-1"}, filter : FilterInputs, start : TimeInputs,
   end : TimeInputs]

Events == {"event-1", "event-2"}

\* every sequence over S of at most n elements
SeqsUpTo(S, n) == UNION {[1..k -> S] : k \in 0..n}

\* what the library may do in QueryLogs
QueryOutcomes ==
  {[raises |-> r] : r \in {"AWSAccount", "LookupEvents"}} \cup
  {[raises |-> "none", result |-> None]} \cup
  {[raises |-> "none", result |-> [t |-> "list", v |-> es]] :
     es \in SeqsUpTo(Events, MaxRecords)}

(* texts given as --tags *)

\* {}
TagsEmptyObject ==
  <<"{", "}">>

\* {"a": "b"}
TagsOne ==
  <<"{", "\"", "a", "\"", ":", " ", "\"", "b", "\"", "}">>

\* {"a":"b","c":"d"}
TagsTwo ==
  <<"{", "\"", "a", "\"", ":", "\"", "b", "\"", ",", "\"", "c", "\"", ":", "\"", "d", "\"", "}">>

\* {"a":"b","a":"c"}
TagsRepeated ==
  <<"{", "\"", "a", "\"", ":", "\"", "b", "\"", ",", "\"", "a", "\"", ":", "\"", "c", "\"", "}">>

\*  {"a" :"b"} 
TagsBlanks ==
  <<" ", "{", "\"", "a", "\"", " ", ":", "\"", "b", "\"", "}", " ">>

\* {"a":"b",}
TagsTrailingComma ==
  <<"{", "\"", "a", "\"", ":", "\"", "b", "\"", ",", "}">>

\* {"a":"b"
TagsUnclosed ==
  <<"{", "\"", "a", "\"", ":", "\"", "b", "\"">>

\* {a:b}
TagsBareWords ==
  <<"{", "a", ":", "b", "}">>

\* a=b
TagsAssignment ==
  <<"a", "=", "b">>

\* {"a"}
TagsNoValue ==
  <<"{", "\"", "a", "\"", "}">>

\* {'a':'b'}
TagsSingleQuotes ==
  <<"{", "'", "a", "'", ":", "'", "b", "'", "}">>

\* {}{}
TagsTwice ==
  <<"{", "}", "{", "}">>

TagTexts ==
  {TagsEmptyObject,
   TagsOne,
   TagsTwo,
   TagsRepeated,
   TagsBlanks,
   TagsTrailingComma,
   TagsUnclosed,
   TagsBareWords,
   TagsAssignment,
   TagsNoValue,
   TagsSingleQuotes,
   TagsTwice}

TagInputs == {None, Str(<<>>)} \cup {Str(t) : t \in TagTexts}

OptionalIds(S) == {None} \cup {Str(x) : x \in S}

CopyArgs ==
  [zone : {"us-east-1"}, dst_zone : OptionalIds({"us-east-2"}),
   instance_id : OptionalIds({"i-1"}), volume_id : OptionalIds({"vol-1"}),
   src_profile : {None}, dst_profile : {None}, tags : TagInputs]

\* what forensics.CreateVolumeCopy may do
CopyOutcomes ==
  {[raises |-> TRUE],
   [raises |-> FALSE, volume |-> [volume_id |-> "vol-9", name |-> "evidence-vol-9"]]}

ListArgs == [zone : {"us-east-1"}, filter : {"ubuntu*"}]

\* the sequences of SeqsUpTo(S, n) no two of whose records share a name:
\* the listings are mappings keyed by name
DistinctNames(S, n) ==
  {q \in SeqsUpTo(S, n) :
     \A i, j \in 1..Len(q) : q[i].name = q[j].name => i = j}

InstanceRecords == [name : {"i-1", "i-2", "i-3"}, boot_volume : {"vol-1"}]

VolumeRecords ==
  [name : {"vol-a", "vol-b", "vol-c"}, availability_zone : {"us-east-1a"}]

ImageRecords ==
  [Name : {"ubuntu-18", "ubuntu-20"}, ImageId : {"ami-1"},
   ImageLocation : {"amazon/ubuntu"}]

\* what the library may do in a listing command: which call raises, what
\* the listing returns and which GetBootVolume call raises
ListOutcomes(results) ==
  {[raises |-> r] : r \in {"AWSAccount", "List"}} \cup
  {[raises |-> "none", result |-> q, raiseAt |-> k] :
     q \in results, k \in 0..MaxRecords}

(* ------------------------------ actions -------------------------------- *)

Init ==
  /\ pc = "idle"
  /\ cmd = "none"
  /\ args = None
  /\ env = None
  /\ out = <<>>
  /\ calls = <<>>
  /\ exc = "none"

\* handler name has run on arguments a, the library behaving as ext, with
\* outcome r
Finish(name, a, ext, r) ==
  /\ pc' = r.pc
  /\ exc' = r.exc
  /\ out' = r.out
  /\ calls' = r.calls
  /\ cmd' = name
  /\ args' = a
  /\ env' = ext

StartAnalysisVm ==
  /\ pc = "idle"
  /\ \E a \in VmArgs, ext \in VmOutcomes :
       Finish("StartAnalysisVm", a, ext, RunStartAnalysisVm(a, ext))

QueryLogs ==
  /\ pc = "idle"
  /\ \E a \in QueryArgs, ext \in QueryOutcomes :
       Finish("QueryLogs", a, ext, RunQueryLogs(a, ext))

CreateVolumeCopy ==
  /\ pc = "idle"
  /\ \E a \in CopyArgs, ext \in CopyOutcomes :
       Finish("CreateVolumeCopy", a, ext, RunCreateVolumeCopy(a, ext))

ListInstances ==
  /\ pc = "idle"
  /\ \E a \in ListArgs :
       \E ext \in ListOutcomes(DistinctNames(InstanceRecords, MaxRecords)) :
         Finish("ListInstances", a, ext, RunListInstances(a, ext))

ListVolumes ==
  /\ pc = "idle"
  /\ \E a \in ListArgs :
       \E ext \in ListOutcomes(DistinctNames(VolumeRecords, MaxRecords)) :
         Finish("ListVolumes", a, ext, RunListVolumes(a, ext))

ListImages ==
  /\ pc = "idle"
  /\ \E a \in ListArgs :
       \E ext \in ListOutcomes(SeqsUpTo(ImageRecords, MaxRecords)) :
         Finish("ListImages", a, ext, RunListImages(a, ext))

Next ==
  \/ ListInstances
  \/ ListVolumes
  \/ CreateVolumeCopy
  \/ QueryLogs
  \/ StartAnalysisVm
  \/ ListImages

Spec == Init /\ [][Next]_vars

(* ====================== claims: StartAnalysisVm ======================== *)

\* the --attach_volumes text of a run of StartAnalysisVm
AttachText == args.attach_volumes.v

\* a run of StartAnalysisVm that was given a non-empty --attach_volumes
VmRunWithVolumes ==
  cmd = "StartAnalysisVm" /\ pc # "idle" /\ Truthy(args.attach_volumes)

CommaCount(text) == Cardinality({p \in 1..Len(text) : text[p] = ","})

\* the entries of a text are one more than its commas
EntryCount(text) == CommaCount(text) + 1

\* a leading, trailing or doubled comma
HasEmptyEntry(text) ==
  \/ text[1] = ","
  \/ text[Len(text)] = ","
  \/ \E p \in 1..(Len(text) - 1) : text[p] = "," /\ text[p + 1] = ","

\* the position of the k-th comma; 0 before the text, Len + 1 after it
CommaAt(text, k) ==
  IF k = 0 THEN 0
  ELSE IF k > CommaCount(text) THEN Len(text) + 1
  ELSE CHOOSE p \in 1..Len(text) :
         text[p] = "," /\ Cardinality({q \in 1..p : text[q] = ","}) = k

\* the i-th entry: what stands between the commas i - 1 and i
EntryAt(text, i) ==
  SubSeq(text, CommaAt(text, i - 1) + 1, CommaAt(text, i) - 1)

\* the device letters AWS recommends, in order
DeviceLetters == <<"f", "g", "h", "i", "j", "k", "l", "m", "n", "o", "p">>

ErrorFormats ==
  {"error: --attach_volumes must be < 11",
   "error: parameter --attach_volumes: {0:s}"}

\* the calls of forensics.StartAnalysisVm made in the run
VmCalls == SelectSeq(calls, LAMBDA c : c.fn = "forensics.StartAnalysisVm")

PrintedFormats == {out[i].fmt : i \in 1..Len(out)}

\* exactly one line was printed and it is an error message
OneErrorLine == Len(out) = 1 /\ out[1].fmt \in ErrorFormats

\* both numeric arguments convert
NumbersConvert == IntOf(args.disk_size).ok /\ IntOf(args.cpu_cores).ok

\* C1: an input of 1 to 10 non-empty entries is accepted: no error line is
\* printed, forensics.StartAnalysisVm is called, and the i-th pair of its
\* attach_volumes is the i-th entry with the i-th of /dev/sdf, /dev/sdg, ...
C1_UpToTenAccepted ==
  (/\ VmRunWithVolumes
   /\ NumbersConvert
   /\ ~HasEmptyEntry(AttachText)
   /\ EntryCount(AttachText) \in 1..10)
  => /\ PrintedFormats \cap ErrorFormats = {}
     /\ Len(VmCalls) = 1
     /\ VmCalls[1].params.attach_volumes =
          [i \in 1..EntryCount(AttachText) |->
             <<EntryAt(AttachText, i), <<"/dev/sd", DeviceLetters[i]>>>>]

\* C2: an input of 11 or more entries is rejected: one error line is
\* printed, the handler returns and no external call is made.
C2_ElevenOrMoreRejected ==
  (VmRunWithVolumes /\ EntryCount(AttachText) >= 11)
  => /\ pc = "returned"
     /\ exc = "none"
     /\ calls = <<>>
     /\ OneErrorLine

\* twelve non-empty entries were given and rejected
C2_Witness ==
  /\ VmRunWithVolumes
  /\ EntryCount(AttachText) = 12
  /\ ~HasEmptyEntry(AttachText)
  /\ pc = "returned"
  /\ calls = <<>>
  /\ OneErrorLine

\* C3: a non-empty input with an empty entry is rejected: one error line
\* is printed, the handler returns without raising and no external call
\* is made.
C3_EmptyEntryRejected ==
  (VmRunWithVolumes /\ HasEmptyEntry(AttachText))
  => /\ pc = "returned"
     /\ exc = "none"
     /\ calls = <<>>
     /\ OneErrorLine

\* "v,,v" was given and rejected by the check of the entries
C3_Witness ==
  /\ VmRunWithVolumes
  /\ AttachText = <<"v", ",", ",", "v">>
  /\ pc = "returned"
  /\ calls = <<>>
  /\ out = <<Line("error: parameter --attach_volumes: {0:s}", <<AttachText>>)>>

\* the place of a device name among /dev/sdf .. /dev/sdp, 0 if outside
DevicePlace(name) ==
  IF name[1] = "/dev/sd" /\ \E k \in 1..Len(DeviceLetters) : DeviceLetters[k] = name[2]
  THEN CHOOSE k \in 1..Len(DeviceLetters) : DeviceLetters[k] = name[2]
  ELSE 0

\* C8: in a run that reaches the external call every forwarded device name
\* lies in /dev/sdf .. /dev/sdp, the first is /dev/sdf and each following
\* one is one letter after the one before it.
C8_DeviceNamesInRange ==
  (cmd = "StartAnalysisVm" /\ Len(VmCalls) > 0)
  => LET av == VmCalls[1].params.attach_volumes
     IN /\ \A i \in 1..Len(av) : DevicePlace(av[i][2]) # 0
        /\ Len(av) > 0 => DevicePlace(av[1][2]) = 1
        /\ \A i \in 2..Len(av) :
             DevicePlace(av[i][2]) = DevicePlace(av[i - 1][2]) + 1

\* the external call was reached with three volumes or more
C8_Witness ==
  /\ cmd = "StartAnalysisVm"
  /\ Len(VmCalls) = 1
  /\ Len(VmCalls[1].params.attach_volumes) >= 3

\* the condition C10 gives for the external call
AttachTextPasses ==
  \/ ~Truthy(args.attach_volumes)
  \/ Len(AttachText) <= 11 /\ ~HasEmptyEntry(AttachText)

\* what a rejecting run does
RejectedRun ==
  /\ OneErrorLine
  /\ calls = <<>>
  /\ PrintedFormats \cap {"Starting analysis VM...", "Analysis VM started."} = {}

\* C10 as stated: the external call is made exactly once if and only if
\* --attach_volumes is absent or empty or is at most 11 characters long with
\* no empty entry; every other run prints one error line and calls nothing.
C10_Original ==
  (cmd = "StartAnalysisVm" /\ pc # "idle")
  => /\ Len(VmCalls) = 1 <=> AttachTextPasses
     /\ Len(VmCalls) <= 1
     /\ ~AttachTextPasses => RejectedRun

\* C10 amended: the external call is made exactly once if and only if the
\* condition on --attach_volumes holds and disk_size and cpu_cores both
\* convert with int(); a run whose --attach_volumes fails the condition
\* prints one error line and calls nothing.
C10_CallIffPassesAndNumbersConvert ==
  (cmd = "StartAnalysisVm" /\ pc # "idle")
  => /\ Len(VmCalls) = 1 <=> (AttachTextPasses /\ NumbersConvert)
     /\ Len(VmCalls) <= 1
     /\ ~AttachTextPasses => RejectedRun

\* one entry of 12 characters was rejected for its length
C10_Witness ==
  /\ VmRunWithVolumes
  /\ Len(AttachText) = 12
  /\ EntryCount(AttachText) = 1
  /\ RejectedRun
  /\ out[1].fmt = "error: --attach_volumes must be < 11"

(* ========================= claims: QueryLogs =========================== *)

\* the calls of LookupEvents made in the run
LookupCalls == SelectSeq(calls, LAMBDA c : c.fn = "LookupEvents")

\* the arguments of QueryLogs that were supplied
SuppliedKeys ==
  {k \in {"qfilter", "starttime", "endtime"} :
     \/ k = "qfilter" /\ args.filter # None /\ args.filter.v # <<>>
     \/ k = "starttime" /\ args.start # None /\ args.start.v # <<>>
     \/ k = "endtime" /\ args.end # None /\ args.end.v # <<>>}

DateTime(y, mo, d, h, mi, sec) ==
  [year |-> y, month |-> mo, day |-> d, hour |-> h, minute |-> mi,
   second |-> sec]

\* the time each well-formed timestamp denotes
TimeOf(text) ==
  CASE text = TsNewYear -> DateTime(2020, 1, 1, 0, 0, 0)
    [] text = TsYearEnd -> DateTime(2020, 12, 31, 23, 59, 59)
    [] text = TsLeapDay -> DateTime(2020, 2, 29, 12, 30, 0)
    [] text = TsShort -> DateTime(2020, 1, 1, 0, 0, 0)

\* C4: the parameters given to LookupEvents have exactly the keys whose
\* argument was supplied: qfilter is the filter text, starttime and endtime
\* are the times the texts denote; no argument gives no parameter, and
\* start "2020-01-01 00:00:00" alone gives that start time and nothing else.
C4_ParamsAreTheSuppliedKeys ==
  (cmd = "QueryLogs" /\ Len(LookupCalls) > 0)
  => LET params == LookupCalls[1].params
     IN /\ Len(LookupCalls) = 1
        /\ DOMAIN params = SuppliedKeys
        /\ "qfilter" \in SuppliedKeys => params.qfilter = args.filter.v
        /\ "starttime" \in SuppliedKeys => params.starttime = TimeOf(args.start.v)
        /\ "endtime" \in SuppliedKeys => params.endtime = TimeOf(args.end.v)
        /\ SuppliedKeys = {} => params = <<>>
        /\ (SuppliedKeys = {"starttime"} /\ args.start.v = TsNewYear)
             => params = [starttime |-> DateTime(2020, 1, 1, 0, 0, 0)]

\* LookupEvents was called with the start time alone
C4_Witness ==
  /\ cmd = "QueryLogs"
  /\ SuppliedKeys = {"starttime"}
  /\ args.start.v = TsNewYear
  /\ Len(LookupCalls) = 1
  /\ LookupCalls[1].params = [starttime |-> DateTime(2020, 1, 1, 0, 0, 0)]

\* C7: once the lookup has returned, a non-empty result prints the count
\* and then one line per event in the order of the result; an empty or
\* falsy result prints nothing.
C7_CountThenEvents ==
  (cmd = "QueryLogs" /\ pc = "returned")
  => IF env.result # None /\ env.result.v # <<>>
     THEN /\ Len(out) = Len(env.result.v) + 1
          /\ out[1] = Line("Log events found: {0:d}", <<Len(env.result.v)>>)
          /\ \A i \in 1..Len(env.result.v) : out[i + 1].vals = <<env.result.v[i]>>
     ELSE out = <<>>

\* two different events came back and were printed after the count
C7_Witness ==
  /\ cmd = "QueryLogs"
  /\ pc = "returned"
  /\ env.result # None
  /\ env.result.v = <<"event-2", "event-1">>
  /\ Len(out) = 3

\* the timestamps that are no date and time in the format
MalformedTimestamps ==
  {TsDateOnly, TsMonth13, TsFeb29, TsSlashes, TsTrailing, TsIso, TsHour24,
   TsSecond60}

\* a supplied --start or --end is malformed
MalformedSupplied ==
  \/ args.start # None /\ args.start.v \in MalformedTimestamps
  \/ args.end # None /\ args.end.v \in MalformedTimestamps

\* C9: a supplied start or end that does not match the format makes the
\* run end in an unhandled error (the ValueError of the conversion once
\* the log client is built), with no LookupEvents call and nothing printed.
C9_MalformedTimestampRaises ==
  (cmd = "QueryLogs" /\ pc # "idle" /\ MalformedSupplied)
  => /\ pc = "raised"
     /\ env.raises # "AWSAccount" => exc = "ValueError"
     /\ Len(LookupCalls) = 0
     /\ out = <<>>

\* a well-formed start and a malformed end raised ValueError
C9_Witness ==
  /\ cmd = "QueryLogs"
  /\ args.start = Str(TsNewYear)
  /\ args.end = Str(TsDateOnly)
  /\ pc = "raised"
  /\ exc = "ValueError"
  /\ Len(LookupCalls) = 0

(* ====================== claims: listing commands ======================= *)

\* a listing command whose external calls all returned
ListingReturned ==
  /\ cmd \in {"ListInstances", "ListVolumes", "ListImages"}
  /\ pc = "returned"

\* a header: a line that formats no value
IsHeader(line) == line.vals = <<>>

\* C5 as stated: each listing command prints its header line and then one
\* line per record, so the header alone for an empty result.
C5_Original ==
  ListingReturned
  => /\ Len(out) = Len(env.result) + 1
     /\ IsHeader(out[1])
     /\ \A i \in 2..Len(out) : ~IsHeader(out[i])

\* C5 amended: ListInstances and ListVolumes print their header line and
\* then one line per record in result order, so the header alone for an
\* empty result; ListImages prints no header, only one line per record,
\* so nothing for an empty result.
C5_HeaderExceptListImages ==
  ListingReturned
  => /\ cmd = "ListInstances" =>
          /\ Len(out) = Len(env.result) + 1
          /\ out[1] = Line("Instances found:", <<>>)
          /\ \A i \in 1..Len(env.result) :
               out[i + 1].vals = <<env.result[i].name, env.result[i].boot_volume>>
     /\ cmd = "ListVolumes" =>
          /\ Len(out) = Len(env.result) + 1
          /\ out[1] = Line("Volumes found:", <<>>)
          /\ \A i \in 1..Len(env.result) :
               out[i + 1].vals =
                 <<env.result[i].name, env.result[i].availability_zone>>
     /\ cmd = "ListImages" =>
          /\ Len(out) = Len(env.result)
          /\ \A i \in 1..Len(env.result) :
               out[i].vals = <<env.result[i].Name, env.result[i].ImageId,
                               env.result[i].ImageLocation>>

\* ListImages got an empty result and printed nothing
C5_Witness ==
  /\ cmd = "ListImages"
  /\ pc = "returned"
  /\ env.result = <<>>
  /\ out = <<>>

(* ====================== claims: CreateVolumeCopy ======================= *)

\* the calls of forensics.CreateVolumeCopy made in the run
CopyCalls == SelectSeq(calls, LAMBDA c : c.fn = "forensics.CreateVolumeCopy")

\* the well-formed objects among the tag texts
WellFormedTags == {TagsEmptyObject, TagsOne, TagsTwo, TagsBlanks}

\* the mapping each of them denotes
MappingOf(text) ==
  CASE text = TagsEmptyObject -> <<>>
    [] text = TagsOne -> (<<"a">> :> <<"b">>)
    [] text = TagsTwo -> (<<"a">> :> <<"b">>) @@ (<<"c">> :> <<"d">>)
    [] text = TagsBlanks -> (<<"a">> :> <<"b">>)

\* C6: a well-formed JSON object given as tags reaches
\* forensics.CreateVolumeCopy as the mapping it denotes; absent or empty
\* tags reach it as no tags (None).
C6_TagsForwardedAsMapping ==
  (cmd = "CreateVolumeCopy" /\ pc # "idle")
  => /\ (args.tags = None \/ args.tags.v \in WellFormedTags \cup {<<>>})
          => Len(CopyCalls) = 1
     /\ Len(CopyCalls) > 0 =>
          LET tags == CopyCalls[1].params.tags
          IN /\ (args.tags # None /\ args.tags.v \in WellFormedTags)
                  => /\ tags.t = "dict"
                     /\ tags.v = MappingOf(args.tags.v)
             /\ (args.tags = None \/ args.tags.v = <<>>) => tags = None

\* an object of two members was forwarded as a mapping of two keys
C6_Witness ==
  /\ cmd = "CreateVolumeCopy"
  /\ args.tags = Str(TagsTwo)
  /\ Len(CopyCalls) = 1
  /\ DOMAIN CopyCalls[1].params.tags.v = {<<"a">>, <<"c">>}

====
